---- MODULE Spec2Model ----
(***************************************************************************)
(* Model of starscape.py: generate_starscape and its helpers, acting on    *)
(* the host's name-keyed registries (objects, meshes, materials, node      *)
(* groups), the scene camera, the world and the shared random stream.      *)
(*                                                                         *)
(* Numbers.  The values of the shader nodes are exact rationals            *)
(* <<numerator, denominator>>.  props.star_density is a float: it is       *)
(* carried as density_tenths, its decimal value in units of 1/10000        *)
(* (star_density = 0.0014 is 14, a tenth of a point each), and stands for  *)
(* the double nearest to that decimal; N of line 107 is computed in double *)
(* arithmetic.                                                             *)
(* The random stream is a deterministic generator over 0..RngMod-1; a draw *)
(* u stands for the real u / RngMod in [0,1).                              *)
(***************************************************************************)
EXTENDS Integers, Sequences, FiniteSets, TLC

VARIABLES
    scene_camera,   \* bpy.context.scene.camera: "None" or the name of a camera object
    objects,        \* bpy.data.objects, keyed by name
    meshes,         \* bpy.data.meshes, keyed by name
    materials,      \* bpy.data.materials, keyed by name
    node_groups,    \* bpy.data.node_groups, in creation order
    world,          \* bpy.context.world
    rng,            \* state of the shared random stream of module random
    props,          \* parameter bundle of the most recent call that passed line 100
    vertices,       \* the list built at lines 106-116 by the most recent call
    result,         \* outcome of the most recent call: "none", "True", "False", "raised"
    ncalls,         \* number of generate_starscape calls made
    first_call,     \* seed, count, hemisphere and points of the first successful call
    cn_args,        \* connect_nodes: the arguments after the tree
    cn_tree,        \* connect_nodes: the tree the call acts on
    cn_state        \* connect_nodes: "ready", "returned" or "raised"

vars == <<scene_camera, objects, meshes, materials, node_groups, world, rng, props,
          vertices, result, ncalls, first_call, cn_args, cn_tree, cn_state>>

scene_vars == <<scene_camera, objects, meshes, materials, node_groups, world, rng, props,
                vertices, result, ncalls, first_call>>

cn_vars == <<cn_args, cn_tree, cn_state>>

(***************************************************************************)
(* Bounds of the model.                                                    *)
(***************************************************************************)
MaxCalls == 2
MaxGenCalls == 3
MaxSeed == 1
MaxPoints == 2
MaxTenths == 30
MaxArgc == 10
RngMod == 16
SampleDen == 7

(***************************************************************************)
(* Rationals.                                                              *)
(***************************************************************************)
Rat(n, d) == <<n, d>>

RatInt(n) == <<n, 1>>

RatMul(a, b) == <<a[1] * b[1], a[2] * b[2]>>

RatAdd(a, b) == <<a[1] * b[2] + b[1] * a[2], a[2] * b[2]>>

RatEq(a, b) == a[1] * b[2] = b[1] * a[2]

RatLess(a, b) == a[1] * b[2] < b[1] * a[2]

Abs(n) == IF n < 0 THEN -n ELSE n

\* fmod(a, b) for b > 0: the remainder takes the sign of a.
RatFmod(a, b) ==
    LET n == Abs(a[1]) * b[2]
        m == b[1] * a[2]
        r == n % m
    IN  <<IF a[1] < 0 THEN -r ELSE r, a[2] * b[2]>>

(***************************************************************************)
(* Floats of the program are IEEE 754 doubles.  A double greater than 0 is *)
(* its significand, MantissaBits binary digits with the most significant   *)
(* first (a 1), and the exponent of that first digit; Zero has no digits.  *)
(* Results are rounded to the nearest double, a tie going to the even      *)
(* significand.  The values the model meets are far from the overflow and  *)
(* the underflow thresholds.  Operators that run along a digit sequence    *)
(* split it in two halves, so that the evaluation stays shallow.           *)
(***************************************************************************)
MantissaBits == 53

Zero == [bits |-> <<>>, exp |-> 0]

\* The binary digits of n >= 0, most significant first; none for 0.
RECURSIVE NatBits(_)
NatBits(n) == IF n = 0 THEN <<>> ELSE Append(NatBits(n \div 2), n % 2)

\* The number a digit sequence stands for.
RECURSIVE BitsNat(_)
BitsNat(bits) ==
    IF bits = <<>> THEN 0
    ELSE 2 * BitsNat(SubSeq(bits, 1, Len(bits) - 1)) + bits[Len(bits)]

\* The digits of the number one greater (one digit longer when all were 1):
\* the last 0 becomes 1 and the digits after it 0.
Increment(bits) ==
    LET zeros == {i \in 1 .. Len(bits) : bits[i] = 0}
    IN  IF zeros = {} THEN <<1>> \o [i \in 1 .. Len(bits) |-> 0]
        ELSE LET last == CHOOSE i \in zeros : \A z \in zeros : z <= i
             IN  [i \in 1 .. Len(bits) |->
                    IF i < last THEN bits[i] ELSE IF i = last THEN 1 ELSE 0]

\* The double nearest to the number with the digits `bits` (the first a 1, of
\* exponent exp) followed by a remainder that is nonzero exactly if sticky.
RoundToDouble(bits, exp, sticky) ==
    LET kept == SubSeq(bits, 1, MantissaBits)
        half == IF Len(bits) > MantissaBits THEN bits[MantissaBits + 1] ELSE 0
        rest == sticky \/ \E i \in MantissaBits + 2 .. Len(bits) : bits[i] = 1
        away == half = 1 /\ (rest \/ kept[MantissaBits] = 1)
        inc  == Increment(kept)
    IN  IF ~away THEN [bits |-> kept, exp |-> exp]
        ELSE IF Len(inc) > MantissaBits
        THEN [bits |-> SubSeq(inc, 1, MantissaBits), exp |-> exp + 1]
        ELSE [bits |-> inc, exp |-> exp]

\* The largest e >= 0 with b * 2^e <= a, for a >= b > 0.
RECURSIVE ExponentDown(_, _)
ExponentDown(a, b) == IF a < 2 * b THEN 0 ELSE 1 + ExponentDown(a, 2 * b)

\* The smallest e >= 0 with a * 2^e >= b, for a > 0.
RECURSIVE ExponentUp(_, _)
ExponentUp(a, b) == IF a >= b THEN 0 ELSE 1 + ExponentUp(2 * a, b)

RECURSIVE Pow2(_)
Pow2(e) == IF e = 0 THEN 1 ELSE 2 * Pow2(e - 1)

\* The next n binary digits of r / b (0 <= r < b) and the remainder left.
RECURSIVE QuotientBits(_, _, _)
QuotientBits(r, b, n) ==
    IF n = 0 THEN [bits |-> <<>>, rem |-> r]
    ELSE IF n = 1
    THEN LET bit == IF 2 * r >= b THEN 1 ELSE 0
         IN  [bits |-> <<bit>>, rem |-> 2 * r - bit * b]
    ELSE LET first == QuotientBits(r, b, n \div 2)
             rest  == QuotientBits(first.rem, b, n - n \div 2)
         IN  [bits |-> first.bits \o rest.bits, rem |-> rest.rem]

\* The float a decimal num / den (num >= 0, den > 0) denotes: the nearest double.
Double(num, den) ==
    IF num = 0 THEN Zero
    ELSE LET down == IF num >= den THEN ExponentDown(num, den) ELSE 0
             up   == IF num >= den THEN 0 ELSE ExponentUp(num, den)
             a    == num * Pow2(up)
             b    == den * Pow2(down)
             q    == QuotientBits(a - b, b, MantissaBits)
         IN  RoundToDouble(<<1>> \o q.bits, down - up, q.rem # 0)

Reverse(seq) == [i \in 1 .. Len(seq) |-> seq[Len(seq) + 1 - i]]

\* k times the number with the digits `bits`, plus carry; here the digits run
\* from the least significant.  The result has as many digits as `bits`, and
\* the carry out of them.
RECURSIVE MulBits(_, _, _)
MulBits(bits, k, carry) ==
    IF bits = <<>> THEN [bits |-> <<>>, carry |-> carry]
    ELSE IF Len(bits) = 1
    THEN LET v == bits[1] * k + carry
         IN  [bits |-> <<v % 2>>, carry |-> v \div 2]
    ELSE LET h    == Len(bits) \div 2
             low  == MulBits(SubSeq(bits, 1, h), k, carry)
             high == MulBits(SubSeq(bits, h + 1, Len(bits)), k, low.carry)
         IN  [bits |-> low.bits \o high.bits, carry |-> high.carry]

\* k * d in float arithmetic, k an integer >= 1: the exact product, rounded.
FloatMul(k, d) ==
    IF d.bits = <<>> THEN Zero
    ELSE LET m       == MulBits(Reverse(d.bits), k, 0)
             product == NatBits(m.carry) \o Reverse(m.bits)
         IN  RoundToDouble(product, d.exp + (Len(product) - Len(d.bits)), FALSE)

\* d / 2 in float arithmetic: exact.
Halve(d) == IF d.bits = <<>> THEN Zero ELSE [d EXCEPT !.exp = @ - 1]

\* The integer part of a double d >= 0.
Floor(d) ==
    IF d.bits = <<>> \/ d.exp < 0 THEN 0
    ELSE BitsNat(SubSeq(d.bits, 1, d.exp + 1))

\* The digit of weight 2^w of d, and whether d has a 1 at a smaller weight.
BitAt(d, w) ==
    LET i == d.exp - w + 1
    IN  IF i \in 1 .. Len(d.bits) THEN d.bits[i] ELSE 0

AnyBelow(d, w) == \E i \in 1 .. Len(d.bits) : i > d.exp - w + 1 /\ d.bits[i] = 1

(***************************************************************************)
(* round() of Python 3 on a float d >= 0: the nearest integer, a tie going *)
(* to the even one.                                                        *)
(***************************************************************************)
round(d) ==
    LET whole == Floor(d)
    IN  IF BitAt(d, -1) = 0 THEN whole
        ELSE IF AnyBelow(d, -1) THEN whole + 1
        ELSE IF whole % 2 = 0 THEN whole ELSE whole + 1

(***************************************************************************)
(* The random stream: random.seed(s) sets the state from s alone,          *)
(* random.random() advances the state and returns a value in [0,1).        *)
(***************************************************************************)
random_seed(s) == (7 * s + 1) % RngMod

random_advance(state) == (5 * state + 3) % RngMod

\* random_spherical_coordinates: phi from the first draw, theta from the second.
\* phi = u1 * 2 pi is carried as u1, theta = asin(2 u2 - 1) as u2.
random_spherical_coordinates(state) ==
    LET s1 == random_advance(state)
        s2 == random_advance(s1)
    IN  [phi |-> s1, theta |-> s2, rng |-> s2]

\* spherical_to_cartesian_coordinates with radius 1: x and y are functions of
\* (phi, theta), carried as the pair itself; z = sin(theta) = 2 u2 - 1, carried
\* as its numerator over RngMod.
spherical_to_cartesian_coordinates(phi, theta) ==
    [xy |-> <<phi, theta>>, z |-> 2 * theta - RngMod]

\* props.star_density: the float the decimal density_tenths / 10000 denotes.
StarDensity(density_tenths) == Double(density_tenths, 10000)

\* Line 107: N = 1000 * props.star_density.
N(density_tenths) == FloatMul(1000, StarDensity(density_tenths))

\* Variant for the sensitivity of C5: the halving of line 109 left out.
PointCountNoHalving(density_tenths, hemisphere) == round(N(density_tenths))

\* N = 1000 * star_density, halved under hemisphere, then round(N): lines 107-110.
PointCount(density_tenths, hemisphere) ==
    IF hemisphere THEN round(Halve(N(density_tenths))) ELSE round(N(density_tenths))

\* One pass of the loop body, lines 112-116.
StarVertex(c, hemisphere) ==
    <<c.xy[1], c.xy[2], IF hemisphere THEN Abs(c.z) ELSE c.z>>

\* The loop of lines 110-116 from stream state `state`: the points and the
\* stream state it leaves.  n passes are the first n \div 2 passes followed, from
\* the stream state they leave, by the others.
RECURSIVE GenerateVertices(_, _, _)
GenerateVertices(state, n, hemisphere) ==
    IF n = 0 THEN [points |-> <<>>, rng |-> state]
    ELSE IF n = 1
    THEN LET d == random_spherical_coordinates(state)
             c == spherical_to_cartesian_coordinates(d.phi, d.theta)
         IN  [points |-> <<StarVertex(c, hemisphere)>>, rng |-> d.rng]
    ELSE LET first == GenerateVertices(state, n \div 2, hemisphere)
             rest  == GenerateVertices(first.rng, n - n \div 2, hemisphere)
         IN  [points |-> first.points \o rest.points, rng |-> rest.rng]

\* Variant for the sensitivity of C6: line 103 left out, the stream runs on.
SeedNoReseed(state, seed) == state

\* Lines 102-116: reseed, then draw.
Seed(state, seed) == random_seed(seed)

(***************************************************************************)
(* Node trees.  A tree holds its nodes in creation order and its links in  *)
(* creation order.  A node is named by the variable the source binds it    *)
(* to; a socket by its name, or by "#i" for the index i.                   *)
(***************************************************************************)
NoValue == Rat(0, 1)

NoGroup == <<"", 0>>

EmptyTree == [nodes |-> <<>>, links |-> <<>>]

Node(var, type, x, y) ==
    [var |-> var, type |-> type, location |-> <<x, y>>, operation |-> "",
     default_1 |-> NoValue, default_2 |-> NoValue, node_tree |-> NoGroup, hidden |-> {}]

\* make_node: nodes.new(node_type), then the location.
make_node(nodes, var, node_type, x, y) == Append(nodes, Node(var, node_type, x, y))

\* make_group_node: a ShaderNodeGroup whose node_tree is `group`.
make_group_node(nodes, var, group, x, y) ==
    Append(nodes, [Node(var, "ShaderNodeGroup", x, y) EXCEPT !.node_tree = group])

\* make_math_node: a ShaderNodeMath with its operation and two input defaults.
make_math_node(nodes, var, function, x, y, default_1, default_2) ==
    Append(nodes, [Node(var, "ShaderNodeMath", x, y) EXCEPT
                      !.operation = function, !.default_1 = default_1, !.default_2 = default_2])

Half == Rat(1, 2)

Link(node_a, output, input, node_b) ==
    [from_node |-> node_a, from_socket |-> output, to_node |-> node_b, to_socket |-> input]

\* Variant for the sensitivity of C4: only the minimum of four is tested.
ArityOkOnlyMinimum(argc) == argc >= 4

\* The arity test of line 60.
ArityOk(argc) == ~(argc < 4 \/ (argc - 4) % 3 # 0)

\* The loop of lines 64-70: n = (len(args) - 1) // 3 links, the i-th (from 0) from
\* args[3i].outputs[args[3i+1]] to args[3(i+1)].inputs[args[3i+2]].
ChainLinks(args) ==
    [i \in 1 .. (Len(args) - 1) \div 3 |->
        Link(args[3 * (i - 1) + 1], args[3 * (i - 1) + 2], args[3 * (i - 1) + 3], args[3 * i + 1])]

\* connect_nodes: raise before any link on a bad arity, else tree.links.new per link.
connect_nodes(tree, args) ==
    IF ~ArityOk(Len(args))
    THEN [raised |-> TRUE, tree |-> tree]
    ELSE [raised |-> FALSE, tree |-> [tree EXCEPT !.links = @ \o ChainLinks(args)]]

\* connect_nodes where the source calls it with a fixed, well-formed argument list.
Connected(tree, args) == connect_nodes(tree, args).tree

Socket(name, in_out, type) == [name |-> name, in_out |-> in_out, socket_type |-> "NodeSocket" \o type]

\* Lines 76-79 and 87-90: one interface socket per (type, name) pair.
RECURSIVE InterfaceSockets(_, _)
InterfaceSockets(sockets, in_out) ==
    IF Len(sockets) < 2 THEN <<>>
    ELSE <<Socket(sockets[2], in_out, sockets[1])>> \o InterfaceSockets(SubSeq(sockets, 3, Len(sockets)), in_out)

\* make_group_inputs: raise on an odd number of socket arguments, before the
\* node is made; else the NodeGroupInput node and one INPUT socket per pair.
make_group_inputs(group, var, x, y, sockets) ==
    IF Len(sockets) % 2 # 0
    THEN [raised |-> TRUE, group |-> group]
    ELSE [raised |-> FALSE,
          group |-> [group EXCEPT !.nodes = Append(@, Node(var, "NodeGroupInput", x, y)),
                                  !.interface = @ \o InterfaceSockets(sockets, "INPUT")]]

\* make_group_outputs: the same with the NodeGroupOutput node and OUTPUT sockets.
make_group_outputs(group, var, x, y, sockets) ==
    IF Len(sockets) % 2 # 0
    THEN [raised |-> TRUE, group |-> group]
    ELSE [raised |-> FALSE,
          group |-> [group EXCEPT !.nodes = Append(@, Node(var, "NodeGroupOutput", x, y)),
                                  !.interface = @ \o InterfaceSockets(sockets, "OUTPUT")]]

\* The two where the source calls them with a fixed list of (type, name) pairs.
GroupInputs(group, var, x, y, sockets) == make_group_inputs(group, var, x, y, sockets).group

GroupOutputs(group, var, x, y, sockets) == make_group_outputs(group, var, x, y, sockets).group

\* Output sockets of the two node types hide_node_outputs is applied to.
Outputs(type) ==
    IF type = "ShaderNodeLightPath"
    THEN {"Is Camera Ray", "Is Shadow Ray", "Is Diffuse Ray", "Is Glossy Ray", "Is Singular Ray",
          "Is Reflection Ray", "Is Transmission Ray", "Ray Length", "Ray Depth", "Diffuse Depth",
          "Glossy Depth", "Transparent Depth", "Transmission Depth"}
    ELSE IF type = "ShaderNodeObjectInfo"
    THEN {"Location", "Color", "Alpha", "Object Index", "Material Index", "Random"}
    ELSE {}

IsLinked(tree, var, socket) ==
    \E i \in 1 .. Len(tree.links) :
        tree.links[i].from_node = var /\ tree.links[i].from_socket = socket

\* hide_node_outputs: hide every output socket of the node that is not linked;
\* a socket that is linked stays as it was, hidden or not.
hide_node_outputs(tree, var) ==
    [tree EXCEPT !.nodes =
        [i \in 1 .. Len(tree.nodes) |->
            LET node == tree.nodes[i]
            IN  IF node.var = var
                THEN [node EXCEPT !.hidden =
                         node.hidden \cup {s \in Outputs(node.type) : ~IsLinked(tree, var, s)}]
                ELSE node]]

(***************************************************************************)
(* Evaluation of a tree of math nodes over the rationals: the value on an  *)
(* input socket is the value of the output linked to it, else the node's   *)
(* default for that input.  Outputs of nodes that are not math nodes       *)
(* (group input, light path, object info, group nodes) are read from env,  *)
(* keyed by socket name.                                                   *)
(***************************************************************************)
NodeOf(tree, var) == CHOOSE n \in {tree.nodes[i] : i \in 1 .. Len(tree.nodes)} : n.var = var

LinksInto(tree, var, socket) ==
    {l \in {tree.links[i] : i \in 1 .. Len(tree.links)} : l.to_node = var /\ l.to_socket = socket}

MathOp(operation, a, b) ==
    IF operation = "MULTIPLY" THEN RatMul(a, b)
    ELSE IF operation = "ADD" THEN RatAdd(a, b)
    ELSE IF operation = "MODULO" THEN RatFmod(a, b)
    ELSE NoValue

RECURSIVE EvalOutput(_, _, _, _)
EvalInput(tree, var, socket, env) ==
    LET into == LinksInto(tree, var, socket)
        node == NodeOf(tree, var)
    IN  IF into # {}
        THEN LET l == CHOOSE l \in into : TRUE
             IN  EvalOutput(tree, l.from_node, l.from_socket, env)
        ELSE IF socket = "#0" THEN node.default_1 ELSE node.default_2

EvalOutput(tree, var, socket, env) ==
    LET node == NodeOf(tree, var)
    IN  IF node.type = "ShaderNodeMath"
        THEN MathOp(node.operation, EvalInput(tree, var, "#0", env), EvalInput(tree, var, "#1", env))
        ELSE env[socket]

(***************************************************************************)
(* The three node groups, lines 162-185, 187-202 and 218-235.              *)
(* bpy.data.node_groups.new(name, type) always makes a new group; the host *)
(* keeps names unique by numbering a name that is taken (name.001, ...),   *)
(* carried as <<name, k>>.                                                 *)
(***************************************************************************)
GroupNames(groups) == {groups[i].name : i \in 1 .. Len(groups)}

UniqueName(base, taken) ==
    <<base, CHOOSE k \in 0 .. Cardinality(taken) :
                /\ <<base, k>> \notin taken
                /\ \A j \in 0 .. k - 1 : <<base, j>> \in taken>>

NewGroup(name) == [name |-> name, nodes |-> <<>>, links |-> <<>>, interface |-> <<>>]

RandomIntensityGroup(name) ==
    LET g1 == GroupInputs(NewGroup(name), "group_inputs", 0, 0, <<"Float", "Random">>)
        g2 == GroupOutputs(g1, "group_outputs", 1200, 0, <<"Float", "Intensity">>)
        n1 == make_math_node(g2.nodes, "math_inp_fact", "MULTIPLY", 200, 0, Half, RatInt(9100))
        n2 == make_math_node(n1, "math_pre_div", "DIVIDE", 400, 0, Half, Rat(356, 100))
        n3 == make_math_node(n2, "math_mag_log", "LOGARITHM", 600, 0, Half, Rat(271828, 100000))
        n4 == make_math_node(n3, "math_mag_div", "DIVIDE", 800, 0, Half, Rat(-121, 100))
        n5 == make_math_node(n4, "math_mag_power", "POWER", 1000, 0, Rat(2512, 1000), Half)
    IN  Connected([g2 EXCEPT !.nodes = n5],
            <<"group_inputs", "Random",
              "#0", "math_inp_fact", "#0",
              "#0", "math_pre_div", "#0",
              "#0", "math_mag_log", "#0",
              "#0", "math_mag_div", "#0",
              "#1", "math_mag_power", "#0",
              "Intensity", "group_outputs">>)

\* Variant for the sensitivity of C8: Random 2 taken before the modulo node.
RandomSplitterGroupNoModulo(name) ==
    LET g1 == GroupInputs(NewGroup(name), "group_inputs", 0, 0, <<"Float", "Random">>)
        g2 == GroupOutputs(g1, "group_outputs", 600, 0,
                            <<"Float", "Random 1", "Float", "Random 2">>)
        n1 == make_math_node(g2.nodes, "math_rsplit_mult", "MULTIPLY", 200, -100, Half, RatInt(1000))
        n2 == make_math_node(n1, "math_rsplit_mod", "MODULO", 400, -100, Half, RatInt(1))
        c1 == Connected([g2 EXCEPT !.nodes = n2],
                  <<"group_inputs", "Random", "Random 1", "group_outputs">>)
    IN  Connected(c1,
            <<"group_inputs", "Random",
              "#0", "math_rsplit_mult", "#0",
              "Random 2", "group_outputs">>)

RandomSplitterGroup(name) ==
    LET g1 == GroupInputs(NewGroup(name), "group_inputs", 0, 0, <<"Float", "Random">>)
        g2 == GroupOutputs(g1, "group_outputs", 600, 0,
                            <<"Float", "Random 1", "Float", "Random 2">>)
        n1 == make_math_node(g2.nodes, "math_rsplit_mult", "MULTIPLY", 200, -100, Half, RatInt(1000))
        n2 == make_math_node(n1, "math_rsplit_mod", "MODULO", 400, -100, Half, RatInt(1))
        c1 == Connected([g2 EXCEPT !.nodes = n2],
                  <<"group_inputs", "Random", "Random 1", "group_outputs">>)
    IN  Connected(c1,
            <<"group_inputs", "Random",
              "#0", "math_rsplit_mult", "#0",
              "#0", "math_rsplit_mod", "#0",
              "Random 2", "group_outputs">>)

RandomStarColorGroup(name) ==
    LET g1 == GroupInputs(NewGroup(name), "group_inputs", 0, 0, <<"Float", "Random">>)
        g2 == GroupOutputs(g1, "group_outputs", 800, 0, <<"Color", "Color">>)
        n1 == make_math_node(g2.nodes, "math_kelvin_width", "MULTIPLY", 200, 0, Half, RatInt(17000))
        n2 == make_math_node(n1, "math_kelvin_offset", "ADD", 400, 0, Half, RatInt(3000))
        n3 == make_node(n2, "blackbody", "ShaderNodeBlackbody", 600, 0)
    IN  Connected([g2 EXCEPT !.nodes = n3],
            <<"group_inputs", "Random",
              "#0", "math_kelvin_width", "#0",
              "#0", "math_kelvin_offset", "#0",
              "Temperature", "blackbody", "Color",
              "Color", "group_outputs">>)

(***************************************************************************)
(* The material, lines 136-243.                                            *)
(***************************************************************************)
NoMaterial == [exists |-> FALSE, use_nodes |-> FALSE, node_tree |-> EmptyTree]

\* The nodes the host puts in a material the first time use_nodes is set.
DefaultTree ==
    [nodes |-> <<Node("Principled BSDF", "ShaderNodeBsdfPrincipled", 10, 300),
                 Node("Material Output", "ShaderNodeOutputMaterial", 300, 300)>>,
     links |-> <<Link("Principled BSDF", "BSDF", "Surface", "Material Output")>>]

\* Lines 137-140: look the material up by name, make it when absent.
MaterialLookup(mat) == IF mat.exists THEN mat ELSE [NoMaterial EXCEPT !.exists = TRUE]

\* Line 143: shader.use_nodes = True.
UseNodes(mat) ==
    IF mat.use_nodes THEN mat ELSE [mat EXCEPT !.use_nodes = TRUE, !.node_tree = DefaultTree]

\* Line 146: nodes.clear() removes every node, and with the nodes their links.
NodesClear(tree) == EmptyTree

\* Lines 207-214, the main chain, as the argument list given to connect_nodes.
MainChain ==
    <<"geometry_input", "Random",
      "Random", "random_splitter", "Random 1",
      "Random", "random_magnitude", "Intensity",
      "#0", "math_intensity", "#0",
      "#1", "math_lightpath", "#0",
      "Strength", "emission", "Emission",
      "Surface", "material_output">>

\* Variant for the sensitivity of C7: star_intensity left out of the factor.
IntensityFactorUnscaled(star_intensity) == RatInt(15)

\* Line 160: the second operand of math_intensity.
IntensityFactor(star_intensity) == RatMul(RatInt(15), star_intensity)

\* Lines 148-240 on the cleared tree; intensity, splitter and color are the
\* names of the three groups this call has made.
BuildShaderTree(tree, star_intensity, intensity, splitter, color) ==
    LET n1 == make_node(tree.nodes, "material_output", "ShaderNodeOutputMaterial", 0, 0)
        n2 == make_node(n1, "emission", "ShaderNodeEmission", -200, 0)
        n3 == make_math_node(n2, "math_lightpath", "MULTIPLY", -400, 0, Half, Half)
        n4 == make_node(n3, "light_path", "ShaderNodeLightPath", -600, 100)
        t4 == Connected([tree EXCEPT !.nodes = n4],
                  <<"light_path", "Is Camera Ray", "#0", "math_lightpath">>)
        n5 == make_math_node(t4.nodes, "math_intensity", "MULTIPLY", -600, 0,
                             Half, IntensityFactor(star_intensity))
        n6 == make_group_node(n5, "random_magnitude", intensity, -800, 0)
        n7 == make_group_node(n6, "random_splitter", splitter, -1000, 0)
        n8 == make_node(n7, "geometry_input", "ShaderNodeObjectInfo", -1200, 0)
        t8 == Connected([t4 EXCEPT !.nodes = n8], MainChain)
        t9 == hide_node_outputs(hide_node_outputs(t8, "light_path"), "geometry_input")
        n10 == make_group_node(t9.nodes, "random_color", color, -600, -200)
    IN  Connected([t9 EXCEPT !.nodes = n10],
            <<"random_splitter", "Random 2",
              "Random", "random_color", "Color",
              "Color", "emission">>)

(***************************************************************************)
(* Objects, meshes, constraints and drivers.                               *)
(***************************************************************************)
ObjectNames == {"Starscape", "Star_Template"}

MeshName(name) == name \o "_mesh"

\* A mesh of another name: the data of an object found in the scene whose mesh
\* is not the one create_or_reuse_mesh_object looks up.
OtherMeshName(name) == name \o "_data"

MeshNames == {MeshName(n) : n \in ObjectNames} \cup {OtherMeshName(n) : n \in ObjectNames}

MaterialNames == {"Star Shader"}

NoMesh == [exists |-> FALSE, vertices |-> <<>>, edges |-> <<>>, faces |-> <<>>]

EmptyMesh == [NoMesh EXCEPT !.exists = TRUE]

NoDriver == [exists |-> FALSE, variables |-> <<>>, expression |-> ""]

ScaleChannels == 0 .. 2

NoObject ==
    [exists |-> FALSE, data |-> "", linked |-> FALSE, constraints |-> <<>>,
     drivers |-> [i \in ScaleChannels |-> NoDriver], parent |-> "",
     instance_type |-> "NONE", use_instance_vertices_rotation |-> FALSE,
     show_instancer_for_render |-> TRUE, hide_viewport |-> FALSE, active_material |-> ""]

\* mesh.clear_geometry()
clear_geometry(mesh) == [mesh EXCEPT !.vertices = <<>>, !.edges = <<>>, !.faces = <<>>]

\* create_or_reuse_mesh_object: the mesh named name_mesh is cleared when it
\* exists and made when it does not; the object named name is returned as it is
\* when it exists (whatever its data) and made on the mesh when it does not.
create_or_reuse_mesh_object(name, objs, mshs) ==
    LET mesh  == IF mshs[MeshName(name)].exists
                 THEN clear_geometry(mshs[MeshName(name)])
                 ELSE EmptyMesh
        mshs1 == [mshs EXCEPT ![MeshName(name)] = mesh]
        objs1 == IF objs[name].exists THEN objs
                 ELSE [objs EXCEPT ![name] =
                          [NoObject EXCEPT !.exists = TRUE, !.data = MeshName(name), !.linked = TRUE]]
    IN  [objects |-> objs1, meshes |-> mshs1]

HasGeometry(mesh) == mesh.vertices # <<>> \/ mesh.edges # <<>> \/ mesh.faces # <<>>

\* Mesh.from_pydata(vertices, edges, faces) of the host: it adds the elements to
\* the mesh.  On a mesh that holds geometry already the host either keeps both
\* (the new elements follow the old) or, having added the elements, rejects the
\* coordinate array for its length and raises; host_rejects picks the outcome.
from_pydata(mesh, verts, edges, faces, host_rejects) ==
    IF HasGeometry(mesh) /\ host_rejects
    THEN [raised |-> TRUE,
          mesh |-> [mesh EXCEPT !.vertices = @ \o [i \in 1 .. Len(verts) |-> <<0, 0, 0>>],
                                !.edges = @ \o [i \in 1 .. Len(edges) |-> <<0, 0>>],
                                !.faces = @ \o [i \in 1 .. Len(faces) |-> <<>>]]]
    ELSE [raised |-> FALSE,
          mesh |-> [mesh EXCEPT !.vertices = @ \o verts, !.edges = @ \o edges,
                                !.faces = @ \o faces]]

\* Lines 125-132: the triangle, x in units of q = s * sqrt(3), z in units of s.
TemplateVertices == << <<0, 0, 2>>, <<-1, 0, -1>>, <<1, 0, -1>> >>

TemplateEdges == << <<0, 1>>, <<0, 2>>, <<1, 2>> >>

TemplateFaces == << <<0, 1, 2>> >>

\* Variant for the sensitivity of C9: line 249 left out, old constraints stay.
ConstraintsKeepOld(old, camera_lock, camera) ==
    IF camera_lock THEN Append(old, [type |-> "COPY_LOCATION", target |-> camera]) ELSE old

\* Lines 249-252: clear the constraints, then add one when camera_lock is set.
Constraints(old, camera_lock, camera) ==
    IF camera_lock THEN <<[type |-> "COPY_LOCATION", target |-> camera]>> ELSE <<>>

\* obj.driver_add("scale"): one driver per scale channel; a channel that has a
\* driver keeps it, and the call returns the three drivers.
driver_add(drivers) ==
    [i \in ScaleChannels |->
        IF drivers[i].exists THEN drivers[i] ELSE [NoDriver EXCEPT !.exists = TRUE]]

CameraData(camera) == camera \o "_data"

Variable(name, id_type, id, data_path) ==
    [name |-> name, type |-> "SINGLE_PROP", id_type |-> id_type, id |-> id,
     data_path |-> data_path]

\* Lines 256-268: per channel, one more variable s and the expression.
StarsDrivers(drivers, camera) ==
    [i \in ScaleChannels |->
        [driver_add(drivers)[i] EXCEPT
            !.variables = Append(@, Variable("s", "CAMERA", CameraData(camera), "clip_end")),
            !.expression = "0.9 * s"]]

\* Lines 272-311: per channel, one more of each of f, x, y, p and the expression.
TemplateDrivers(drivers, camera) ==
    [i \in ScaleChannels |->
        [driver_add(drivers)[i] EXCEPT
            !.variables = @ \o
                <<Variable("f", "CAMERA", CameraData(camera), "lens"),
                  Variable("x", "SCENE", "Scene", "render.resolution_x"),
                  Variable("y", "SCENE", "Scene", "render.resolution_y"),
                  Variable("p", "SCENE", "Scene", "render.resolution_percentage")>>,
            !.expression = "50 / f * 2202.907 / max(x, y) / p * 100"]]

(***************************************************************************)
(* The scene camera.                                                       *)
(***************************************************************************)
Cameras == {"CameraPersp", "CameraOrtho"}

CameraType(camera) == IF camera = "CameraPersp" THEN "PERSP" ELSE "ORTHO"

\* Variant for the sensitivity of C1: the projection type is not tested.
CameraUsableAnyCamera(camera) == camera # "None"

\* Line 99: not camera or camera.data.type != "PERSP" makes the call return False.
CameraUsable(camera) == ~(camera = "None" \/ CameraType(camera) # "PERSP")

(***************************************************************************)
(* generate_starscape(props), lines 96-332.  host_rejects is the host's    *)
(* answer to from_pydata on a mesh that holds geometry (see from_pydata).  *)
(***************************************************************************)
BlackWorld == [use_nodes |-> FALSE, color |-> <<0, 0, 0>>]

generate_starscape(p, host_rejects) ==
    \* lines 102-116
    \E gen \in {GenerateVertices(Seed(rng, p.random_seed),
                                 PointCount(p.density_tenths, p.hemisphere), p.hemisphere)} :
    LET camera == scene_camera
        \* lines 119-121
        r1 == create_or_reuse_mesh_object("Starscape", objects, meshes)
        sd == r1.objects["Starscape"].data
        f1 == from_pydata(r1.meshes[sd], gen.points, <<>>, <<>>, host_rejects)
        m1 == [r1.meshes EXCEPT ![sd] = f1.mesh]
        \* lines 125-132
        r2 == create_or_reuse_mesh_object("Star_Template", r1.objects, m1)
        td == r2.objects["Star_Template"].data
        f2 == from_pydata(r2.meshes[td], TemplateVertices, TemplateEdges, TemplateFaces,
                          host_rejects)
        m2 == [r2.meshes EXCEPT ![td] = f2.mesh]
        \* lines 137-146
        mat == UseNodes(MaterialLookup(materials["Star Shader"]))
        \* lines 163, 188, 219
        intensity == UniqueName("Random Intensity", GroupNames(node_groups))
        groups1   == Append(node_groups, RandomIntensityGroup(intensity))
        splitter  == UniqueName("Random Splitter", GroupNames(groups1))
        groups2   == Append(groups1, RandomSplitterGroup(splitter))
        color     == UniqueName("Random Star Color", GroupNames(groups2))
        groups3   == Append(groups2, RandomStarColorGroup(color))
        tree      == BuildShaderTree(NodesClear(mat.node_tree), p.star_intensity,
                                     intensity, splitter, color)
        \* lines 243-321
        objs3 == [r2.objects EXCEPT
                    !["Starscape"] =
                        [@ EXCEPT !.constraints = Constraints(@, p.camera_lock, camera),
                                  !.drivers = StarsDrivers(@, camera),
                                  !.instance_type = "VERTS",
                                  !.use_instance_vertices_rotation = TRUE,
                                  !.show_instancer_for_render = FALSE],
                    !["Star_Template"] =
                        [@ EXCEPT !.active_material = "Star Shader",
                                  !.drivers = TemplateDrivers(@, camera),
                                  !.parent = "Starscape",
                                  !.hide_viewport = TRUE]]
    IN  /\ ncalls' = ncalls + 1
        /\ UNCHANGED scene_camera
        /\ IF ~CameraUsable(camera)
           THEN /\ result' = "False"
                /\ UNCHANGED <<objects, meshes, materials, node_groups, world, rng, props,
                               vertices>>
           ELSE /\ props' = p
                /\ rng' = gen.rng
                /\ vertices' = gen.points
                /\ IF f1.raised
                   THEN /\ result' = "raised"
                        /\ objects' = r1.objects
                        /\ meshes' = m1
                        /\ UNCHANGED <<materials, node_groups, world>>
                   ELSE IF f2.raised
                   THEN /\ result' = "raised"
                        /\ objects' = r2.objects
                        /\ meshes' = m2
                        /\ UNCHANGED <<materials, node_groups, world>>
                   ELSE /\ result' = "True"
                        /\ objects' = objs3
                        /\ meshes' = m2
                        /\ materials' = [materials EXCEPT
                                            !["Star Shader"] = [mat EXCEPT !.node_tree = tree]]
                        /\ node_groups' = groups3
                        /\ world' = IF p.clear_world_bg THEN BlackWorld ELSE world

(***************************************************************************)
(* The scene a call finds.  Each of the two object names is absent, or     *)
(* only its mesh exists, or only the object exists (on a mesh of another   *)
(* name), or both exist; a mesh found in the scene is empty or holds one   *)
(* vertex.                                                                 *)
(***************************************************************************)
Presence == {"absent", "mesh_only", "object_only", "both"}

StaleVertex == <<7, 7, 7>>

FoundMesh(stale) == [EmptyMesh EXCEPT !.vertices = stale]

FoundObject(data) == [NoObject EXCEPT !.exists = TRUE, !.data = data, !.linked = TRUE]

FoundObjects(kind) ==
    [n \in ObjectNames |->
        IF kind[n] = "object_only" THEN FoundObject(OtherMeshName(n))
        ELSE IF kind[n] = "both" THEN FoundObject(MeshName(n))
        ELSE NoObject]

FoundMeshes(kind, stale) ==
    [m \in MeshNames |->
        IF \E n \in ObjectNames :
              \/ m = MeshName(n) /\ kind[n] \in {"mesh_only", "both"}
              \/ m = OtherMeshName(n) /\ kind[n] = "object_only"
        THEN FoundMesh(stale)
        ELSE NoMesh]

Props(seed, tenths, hemisphere, star_intensity, camera_lock, clear_world_bg) ==
    [random_seed |-> seed, density_tenths |-> tenths, hemisphere |-> hemisphere,
     star_intensity |-> star_intensity, camera_lock |-> camera_lock,
     clear_world_bg |-> clear_world_bg]

NoFirstCall == [set |-> FALSE, random_seed |-> 0, count |-> 0, hemisphere |-> FALSE, points |-> <<>>]

InitRest ==
    /\ materials = [m \in MaterialNames |-> NoMaterial]
    /\ node_groups = <<>>
    /\ world = [use_nodes |-> TRUE, color |-> <<5, 5, 5>>]
    /\ rng = 0
    /\ props = Props(0, 0, FALSE, RatInt(1), FALSE, FALSE)
    /\ vertices = <<>>
    /\ result = "none"
    /\ ncalls = 0
    /\ first_call = NoFirstCall

CnIdle ==
    /\ cn_args = <<>>
    /\ cn_tree = EmptyTree
    /\ cn_state = "idle"

Init ==
    /\ scene_camera \in Cameras \cup {"None"}
    /\ \E kind \in [ObjectNames -> Presence], stale \in {<<>>, <<StaleVertex>>} :
          /\ objects = FoundObjects(kind)
          /\ meshes = FoundMeshes(kind, stale)
    /\ InitRest
    /\ CnIdle

\* The bundles of a generation request on a scene: two points or (hemisphere)
\* one, a star_intensity of 1 or 5/2 (the latter with clear_world_bg set).
SceneProps ==
    {Props(0, 20, hemisphere, IF bg THEN Rat(5, 2) ELSE RatInt(1), lock, bg) :
        hemisphere \in BOOLEAN, lock \in BOOLEAN, bg \in BOOLEAN}

\* A generation request.
Generate ==
    /\ ncalls < MaxCalls
    /\ \E p \in SceneProps, host_rejects \in BOOLEAN : generate_starscape(p, host_rejects)
    /\ UNCHANGED <<first_call, cn_vars>>

\* The user makes another object (or none) the scene's camera.
SetSceneCamera ==
    /\ \E c \in Cameras \cup {"None"} :
          /\ c # scene_camera
          /\ scene_camera' = c
    /\ UNCHANGED <<objects, meshes, materials, node_groups, world, rng, props,
                   vertices, result, ncalls, first_call, cn_vars>>

Next == Generate \/ SetSceneCamera

Spec == Init /\ [][Next]_vars

(***************************************************************************)
(* Point generation on a fresh scene with a perspective camera: GenSpec    *)
(* varies the seed and the count over several calls, CountSpec varies the  *)
(* density finely.  first_call records one earlier successful call.        *)
(* TieTenths are two densities whose decimal product with 1000 (501.5 and  *)
(* 1003) is not the float product (501.49999999999994, 1002.9999999999999).*)
(***************************************************************************)
InitFresh ==
    /\ scene_camera = "CameraPersp"
    /\ objects = [n \in ObjectNames |-> NoObject]
    /\ meshes = [m \in MeshNames |-> NoMesh]
    /\ InitRest
    /\ CnIdle

Remembered(p, points) ==
    [set |-> TRUE, random_seed |-> p.random_seed, count |-> Len(points),
     hemisphere |-> p.hemisphere, points |-> points]

GenGenerate ==
    /\ ncalls < MaxGenCalls
    /\ \E seed \in 0 .. MaxSeed, k \in 0 .. MaxPoints, hemisphere \in BOOLEAN,
          host_rejects \in BOOLEAN :
          generate_starscape(Props(seed, 10 * k, hemisphere, RatInt(1), FALSE, FALSE),
                             host_rejects)
    /\ \E remember \in BOOLEAN :
          first_call' = IF remember /\ ~first_call.set /\ result' = "True"
                        THEN Remembered(props', vertices')
                        ELSE first_call
    /\ UNCHANGED cn_vars

GenSpec == InitFresh /\ [][GenGenerate]_vars

TieTenths == {5015, 10030}

CountGenerate ==
    /\ ncalls < MaxCalls
    /\ \E tenths \in (0 .. MaxTenths) \cup TieTenths, hemisphere \in BOOLEAN,
          host_rejects \in BOOLEAN :
          generate_starscape(Props(0, tenths, hemisphere, RatInt(1), FALSE, FALSE),
                             host_rejects)
    /\ UNCHANGED <<first_call, cn_vars>>

CountSpec == InitFresh /\ [][CountGenerate]_vars

(***************************************************************************)
(* connect_nodes on its own: every argument list of up to MaxArgc          *)
(* arguments (nodes at the positions 0, 3, 6, ..., socket keys elsewhere)  *)
(* applied to a tree of two nodes that holds one link already.             *)
(***************************************************************************)
CnNodes == <<"node_a", "node_b">>

CnSockets == <<"#0", "Value">>

CnTree0 ==
    [nodes |-> <<Node("node_a", "ShaderNodeMath", 0, 0), Node("node_b", "ShaderNodeMath", 200, 0)>>,
     links |-> <<Link("node_b", "Value", "#1", "node_a")>>]

CnArgs(bits) ==
    [j \in 1 .. Len(bits) |-> IF (j - 1) % 3 = 0 THEN CnNodes[bits[j]] ELSE CnSockets[bits[j]]]

InitConnect ==
    /\ scene_camera = "None"
    /\ objects = [n \in ObjectNames |-> NoObject]
    /\ meshes = [m \in MeshNames |-> NoMesh]
    /\ InitRest
    /\ \E argc \in 0 .. MaxArgc : \E bits \in [1 .. argc -> {1, 2}] : cn_args = CnArgs(bits)
    /\ cn_tree = CnTree0
    /\ cn_state = "ready"

ConnectNodes ==
    /\ cn_state = "ready"
    /\ LET r == connect_nodes(cn_tree, cn_args)
       IN  /\ cn_tree' = r.tree
           /\ cn_state' = IF r.raised THEN "raised" ELSE "returned"
    /\ UNCHANGED <<cn_args, scene_vars>>

ConnectSpec == InitConnect /\ [][ConnectNodes]_vars

(***************************************************************************)
(* Properties.                                                             *)
(***************************************************************************)
Elements(seq) == {seq[i] : i \in 1 .. Len(seq)}

GroupsNamed(base) == {g \in Elements(node_groups) : g.name[1] = base}

GroupOf(name) == CHOOSE g \in Elements(node_groups) : g.name = name

ShaderTree == materials["Star Shader"].node_tree

StarsMesh == meshes[objects["Starscape"].data]

TemplateMesh == meshes[objects["Star_Template"].data]

SuccessfulCalls == Len(node_groups) \div 3

\* C1: a generate_starscape call made while the scene has no camera, or a camera
\* that is not a perspective camera, returns False and changes nothing: objects
\* (with their constraints and drivers), meshes, materials, node groups, the
\* world and the random stream are what they were before the call.
C1_NoUsableCameraNoMutation ==
    [][(ncalls' = ncalls + 1 /\ (scene_camera = "None" \/ CameraType(scene_camera) # "PERSP"))
        => (result' = "False"
            /\ UNCHANGED <<objects, meshes, materials, node_groups, world, rng>>)]_vars

\* A call has returned False on a scene that earlier successful calls populated.
C1_Witness ==
    /\ result = "False"
    /\ ncalls = MaxCalls
    /\ objects["Starscape"].exists
    /\ node_groups # <<>>

\* C2: after a successful call every registry holds exactly one entity per
\* logical name: one object and one mesh for each of Starscape and
\* Star_Template, one material Star Shader and one node group for each of
\* Random Intensity, Random Splitter and Random Star Color.
C2_OneEntityPerName ==
    result = "True" =>
        /\ \A n \in ObjectNames : objects[n].exists /\ meshes[MeshName(n)].exists
        /\ materials["Star Shader"].exists
        /\ \A base \in {"Random Intensity", "Random Splitter", "Random Star Color"} :
              Cardinality(GroupsNamed(base)) = 1

\* C3: after a call that got past the camera check, whatever the registries
\* held before it, the mesh of the Starscape object holds exactly the vertices
\* that call generated, the mesh of the Star_Template object exactly 3
\* vertices, 3 edges and 1 face, and the Star Shader tree exactly the nodes
\* and links that call built.
C3_ContentsReplaced ==
    result \in {"True", "raised"} =>
        /\ StarsMesh.vertices = vertices
        /\ StarsMesh.edges = <<>> /\ StarsMesh.faces = <<>>
        /\ objects["Star_Template"].exists
        /\ TemplateMesh.vertices = TemplateVertices
        /\ TemplateMesh.edges = TemplateEdges
        /\ TemplateMesh.faces = TemplateFaces
        /\ Len(ShaderTree.nodes) = 9
        /\ Len(ShaderTree.links) = 9
        /\ Cardinality({n.var : n \in Elements(ShaderTree.nodes)}) = 9

\* C4: connect_nodes raises unless argc >= 4 and (argc - 4) mod 3 = 0; when it
\* raises the tree's links are what they were; when it returns it has added
\* exactly (argc - 1) / 3 links, the i-th from output args[3i+1] of node args[3i]
\* to input args[3i+2] of node args[3(i+1)] (i from 0).
C4_ConnectNodesArity ==
    cn_state \in {"raised", "returned"} =>
        LET argc == Len(cn_args)
            old  == Len(CnTree0.links)
            n    == Len(cn_tree.links) - old
        IN  /\ (cn_state = "raised") <=> ~(argc >= 4 /\ (argc - 4) % 3 = 0)
            /\ SubSeq(cn_tree.links, 1, old) = CnTree0.links
            /\ cn_state = "raised" => n = 0
            /\ cn_state = "returned" =>
                  /\ 3 * n = argc - 1
                  /\ \A i \in 0 .. n - 1 :
                        LET l == cn_tree.links[old + i + 1]
                        IN  /\ l.from_node = cn_args[3 * i + 1]
                            /\ l.from_socket = cn_args[3 * i + 2]
                            /\ l.to_socket = cn_args[3 * i + 3]
                            /\ l.to_node = cn_args[3 * (i + 1) + 1]

\* connect_nodes has returned from a chain of four nodes, three links made.
C4_Witness ==
    /\ cn_state = "returned"
    /\ Len(cn_args) = 10
    /\ Len(cn_tree.links) = Len(CnTree0.links) + 3

\* n is the integer nearest to num / den, the even one of the two on a tie.
IsRounded(n, num, den) ==
    /\ 2 * Abs(den * n - num) <= den
    /\ 2 * Abs(den * n - num) = den => n % 2 = 0

\* n is the integer nearest to the float d, the even one of the two on a tie:
\* 2n - 1 <= 2d <= 2n + 1, and n is even when 2d is one of the two ends.
IsNearestInteger(n, d) ==
    LET twice == IF d.bits = <<>> THEN Zero ELSE [d EXCEPT !.exp = @ + 1]
        whole == Floor(twice)
        exact == ~AnyBelow(twice, 0)
    IN  /\ whole >= 2 * n - 1
        /\ whole < 2 * n + 1 \/ (whole = 2 * n + 1 /\ exact)
        /\ (exact /\ whole \in {2 * n - 1, 2 * n + 1}) => n % 2 = 0

\* C5 as claimed: a successful call puts round(1000 * star_density) points in
\* the point cloud, and with hemisphere set that count halved and rounded.
C5_CountHalvedAfterRounding ==
    result = "True" =>
        LET product == N(props.density_tenths)
        IN  \E m \in 0 .. props.density_tenths \div 10 + 1 :
                /\ IsNearestInteger(m, product)
                /\ IF props.hemisphere
                   THEN IsRounded(Len(StarsMesh.vertices), m, 2)
                   ELSE Len(StarsMesh.vertices) = m

\* C5 amended: a successful call puts round(1000 * star_density) points in the
\* point cloud, and with hemisphere set round(1000 * star_density / 2) points,
\* the product and the quotient being those of float arithmetic: the halving
\* comes before the one rounding (ties to the even integer).
C5_CountRoundedAfterHalving ==
    result = "True" =>
        LET product == N(props.density_tenths)
        IN  IsNearestInteger(Len(StarsMesh.vertices),
                             IF props.hemisphere THEN Halve(product) ELSE product)

\* A hemisphere call with star_density = 1.003 has made 501 points: the float
\* product 1002.9999999999999 halved is below 501.5.
C5_Witness ==
    /\ result = "True"
    /\ props.hemisphere
    /\ props.density_tenths = 10030
    /\ Len(StarsMesh.vertices) = 501

\* C6: two successful calls with the same seed, the same point count and the
\* same hemisphere flag produce the same point sequence, whatever calls ran
\* before or between them.
C6_Deterministic ==
    (/\ result = "True"
     /\ first_call.set
     /\ props.random_seed = first_call.random_seed
     /\ props.hemisphere = first_call.hemisphere
     /\ Len(vertices) = first_call.count) => vertices = first_call.points

\* A third call has repeated the seed, count and flag of a remembered earlier
\* call that drew two points.
C6_Witness ==
    /\ result = "True"
    /\ ncalls = 3
    /\ first_call.set
    /\ first_call.count = 2
    /\ Len(vertices) = 2
    /\ props.random_seed = first_call.random_seed
    /\ props.hemisphere = first_call.hemisphere
    /\ vertices = first_call.points

\* Sample values of a node output used to evaluate the tree.
Samples == {RatInt(0), RatInt(1), Rat(3, 2)}

\* C7: in the material built by a successful call the emission Strength is
\* intensity * (15 * star_intensity) * is_camera_ray: the Random Intensity group
\* node feeds input 0 of a multiply node whose input 1 is unlinked and defaults
\* to 15 * star_intensity; that node and the light path's Is Camera Ray are the
\* two operands of a second multiply node, whose output is the only link into
\* Strength; and the emission output is linked to the material output's Surface.
C7_EmissionStrength ==
    result = "True" =>
        LET t == ShaderTree
        IN  /\ LinksInto(t, "emission", "Strength")
                  = {Link("math_lightpath", "#0", "Strength", "emission")}
            /\ NodeOf(t, "math_lightpath").operation = "MULTIPLY"
            /\ LinksInto(t, "math_lightpath", "#0")
                  = {Link("light_path", "Is Camera Ray", "#0", "math_lightpath")}
            /\ LinksInto(t, "math_lightpath", "#1")
                  = {Link("math_intensity", "#0", "#1", "math_lightpath")}
            /\ NodeOf(t, "math_intensity").operation = "MULTIPLY"
            /\ LinksInto(t, "math_intensity", "#0")
                  = {Link("random_magnitude", "Intensity", "#0", "math_intensity")}
            /\ LinksInto(t, "math_intensity", "#1") = {}
            /\ NodeOf(t, "random_magnitude").node_tree[1] = "Random Intensity"
            /\ LinksInto(t, "material_output", "Surface")
                  = {Link("emission", "Emission", "Surface", "material_output")}
            /\ \A intensity \in Samples, ray \in {RatInt(0), RatInt(1)} :
                  RatEq(EvalInput(t, "emission", "Strength",
                                  [s \in {"Intensity", "Is Camera Ray"} |->
                                      IF s = "Intensity" THEN intensity ELSE ray]),
                        RatMul(RatMul(intensity, RatMul(RatInt(15), props.star_intensity)), ray))

\* A successful call with star_intensity = 5/2 has built the material.
C7_Witness ==
    /\ result = "True"
    /\ props.star_intensity = Rat(5, 2)
    /\ NodeOf(ShaderTree, "math_intensity").default_2 = Rat(75, 2)

\* C8: the Random Splitter group of a successful call outputs Random 1 equal to
\* its input and Random 2 equal to frac(input * 1000), in [0,1), for every input
\* in [0,1); in the material the Random Intensity group node is fed from
\* Random 1 only and the Random Star Color group node from Random 2 only, and no
\* splitter output feeds both.
C8_SplitterDecorrelates ==
    result = "True" =>
        LET t == ShaderTree
            g == GroupOf(NodeOf(t, "random_splitter").node_tree)
        IN  /\ g.name[1] = "Random Splitter"
            /\ \A k \in 0 .. SampleDen - 1 :
                  LET env == [s \in {"Random"} |-> Rat(k, SampleDen)]
                      r1  == EvalInput(g, "group_outputs", "Random 1", env)
                      r2  == EvalInput(g, "group_outputs", "Random 2", env)
                  IN  /\ RatEq(r1, Rat(k, SampleDen))
                      /\ RatEq(r2, Rat((1000 * k) % SampleDen, SampleDen))
                      /\ ~RatLess(r2, RatInt(0)) /\ RatLess(r2, RatInt(1))
            /\ LinksInto(t, "random_magnitude", "Random")
                  = {Link("random_splitter", "Random 1", "Random", "random_magnitude")}
            /\ LinksInto(t, "random_color", "Random")
                  = {Link("random_splitter", "Random 2", "Random", "random_color")}
            /\ NodeOf(t, "random_color").node_tree[1] = "Random Star Color"
            /\ \A l1, l2 \in Elements(t.links) :
                  (/\ l1.from_node = "random_splitter" /\ l2.from_node = "random_splitter"
                   /\ l1.from_socket = l2.from_socket) => l1.to_node = l2.to_node

\* A successful call has wired the splitter of its own making into the material.
C8_Witness ==
    /\ result = "True"
    /\ SuccessfulCalls = 2
    /\ NodeOf(ShaderTree, "random_splitter").node_tree = <<"Random Splitter", 1>>
    /\ Len(GroupOf(<<"Random Splitter", 1>>).links) = 4

\* C9: after a successful call the Starscape object has one copy-location
\* constraint targeting the perspective camera of the scene when that call had
\* camera_lock set, and no constraint when it had not; never more than one.
C9_ConstraintFollowsLock ==
    /\ Len(objects["Starscape"].constraints) <= 1
    /\ result = "True" =>
          objects["Starscape"].constraints =
              IF props.camera_lock
              THEN <<[type |-> "COPY_LOCATION", target |-> "CameraPersp"]>>
              ELSE <<>>

\* A second successful call, with camera_lock set, has left one constraint.
C9_Witness ==
    /\ result = "True"
    /\ SuccessfulCalls = 2
    /\ props.camera_lock
    /\ Len(objects["Starscape"].constraints) = 1

VariableNames(driver) == [i \in 1 .. Len(driver.variables) |-> driver.variables[i].name]

\* C10: after a successful call every scale channel of Starscape has a driver
\* with the one variable s (the camera's clip_end) and the expression 0.9 * s,
\* and every scale channel of Star_Template a driver with the four variables
\* f, x, y, p and the expression 50 / f * 2202.907 / max(x, y) / p * 100.
C10_DriversDeclaredOnce ==
    result = "True" =>
        \A i \in ScaleChannels :
            /\ objects["Starscape"].drivers[i].exists
            /\ objects["Starscape"].drivers[i].variables
                  = <<Variable("s", "CAMERA", CameraData("CameraPersp"), "clip_end")>>
            /\ objects["Starscape"].drivers[i].expression = "0.9 * s"
            /\ objects["Star_Template"].drivers[i].exists
            /\ VariableNames(objects["Star_Template"].drivers[i]) = <<"f", "x", "y", "p">>
            /\ objects["Star_Template"].drivers[i].expression
                  = "50 / f * 2202.907 / max(x, y) / p * 100"

====
